---- MODULE Spec2Model ----
(***************************************************************************)
(* Model of the table synchronization engine of cti_manager.py.           *)
(*                                                                         *)
(* Text is a sequence of characters.  A character is a one-element string; *)
(* the five indicator glyphs of STATUS_EMOJI are single code points in     *)
(* Python and are written here as the tokens "GREEN", "RED", "WHITE",      *)
(* "BLUE" and "YELLOW", each counting as ONE character.  List indices in   *)
(* the source are 0-based; a column index kept in the model (status_col)   *)
(* is the source's 0-based value, and cell i of a row is row[i + 1].       *)
(***************************************************************************)
EXTENDS Integers, Sequences, FiniteSets, TLC

VARIABLES args, local, upstream, last, pc, inp, out

vars == <<args, local, upstream, last, pc, inp, out>>

----------------------------------------------------------------------------
(* Characters and the str methods the program uses.                        *)

NL == "\n"
PIPE == "|"

LowerLetters ==
  <<"a","b","c","d","e","f","g","h","i","j","k","l","m",
    "n","o","p","q","r","s","t","u","v","w","x","y","z">>

UpperLetters ==
  <<"A","B","C","D","E","F","G","H","I","J","K","L","M",
    "N","O","P","Q","R","S","T","U","V","W","X","Y","Z">>

ToUpper ==
  [c \in {LowerLetters[i] : i \in 1..26} |->
     UpperLetters[CHOOSE i \in 1..26 : LowerLetters[i] = c]]

ToLower ==
  [c \in {UpperLetters[i] : i \in 1..26} |->
     LowerLetters[CHOOSE i \in 1..26 : UpperLetters[i] = c]]

\* Unicode code points of the characters other than letters.
OtherCodePoint ==
  [c \in {"\t", "\n", " ", "-", ".", "/", "0", "1", "2", ":", "|",
          "WHITE", "RED", "BLUE", "YELLOW", "GREEN"} |->
     CASE c = "\t" -> 9
       [] c = "\n" -> 10
       [] c = " " -> 32
       [] c = "-" -> 45
       [] c = "." -> 46
       [] c = "/" -> 47
       [] c = "0" -> 48
       [] c = "1" -> 49
       [] c = "2" -> 50
       [] c = ":" -> 58
       [] c = "|" -> 124
       [] c = "WHITE" -> 9898
       [] c = "RED" -> 128308
       [] c = "BLUE" -> 128309
       [] c = "YELLOW" -> 128993
       [] c = "GREEN" -> 128994]

\* ord(c)
CodePoint(c) ==
  IF c \in DOMAIN ToUpper THEN 96 + (CHOOSE i \in 1..26 : LowerLetters[i] = c)
  ELSE IF c \in DOMAIN ToLower THEN 64 + (CHOOSE i \in 1..26 : UpperLetters[i] = c)
  ELSE OtherCodePoint[c]

\* str.isspace() of one character
IsSpace(c) == c \in {" ", "\n", "\t"}

\* str.upper() and str.lower()
upper(s) == [i \in 1..Len(s) |-> IF s[i] \in DOMAIN ToUpper THEN ToUpper[s[i]] ELSE s[i]]

lower(s) == [i \in 1..Len(s) |-> IF s[i] \in DOMAIN ToLower THEN ToLower[s[i]] ELSE s[i]]

SetMin(S) == CHOOSE x \in S : \A y \in S : x <= y

SetMax(S) == CHOOSE x \in S : \A y \in S : y <= x

\* str.lstrip(), str.rstrip(), str.strip() (whitespace)
lstrip(s) ==
  LET ns == {i \in 1..Len(s) : ~IsSpace(s[i])}
  IN IF ns = {} THEN <<>> ELSE SubSeq(s, SetMin(ns), Len(s))

rstrip(s) ==
  LET ns == {i \in 1..Len(s) : ~IsSpace(s[i])}
  IN IF ns = {} THEN <<>> ELSE SubSeq(s, 1, SetMax(ns))

strip(s) == lstrip(rstrip(s))

\* c in s, for one character c
HasChar(s, c) == \E i \in 1..Len(s) : s[i] = c

\* sub in s (substring test)
Contains(s, sub) ==
  \E i \in 0..(Len(s) - Len(sub)) : SubSeq(s, i + 1, i + Len(sub)) = sub

\* s.split(d), for one character d: always at least one piece
RECURSIVE split(_, _)
split(s, d) ==
  LET at == {i \in 1..Len(s) : s[i] = d}
  IN IF at = {} THEN <<s>>
     ELSE LET i == SetMin(at)
          IN <<SubSeq(s, 1, i - 1)>> \o split(SubSeq(s, i + 1, Len(s)), d)

\* d.join(parts), for a text d
RECURSIVE join(_, _)
join(parts, d) ==
  IF parts = <<>> THEN <<>>
  ELSE IF Len(parts) = 1 THEN parts[1]
  ELSE parts[1] \o d \o join(Tail(parts), d)

\* s.ljust(w): pad with trailing spaces to length w, never shorten
ljust(s, w) == IF Len(s) >= w THEN s ELSE s \o [i \in 1..(w - Len(s)) |-> " "]

\* c * n, for one character c
Repeat(c, n) == [i \in 1..n |-> c]

\* s[:n] of Python, for any integer n (a negative n counts from the end)
SliceTo(s, n) ==
  IF n >= 0 THEN SubSeq(s, 1, IF n < Len(s) THEN n ELSE Len(s))
  ELSE SubSeq(s, 1, IF Len(s) + n > 0 THEN Len(s) + n ELSE 0)

\* a < b on str: lexicographic by code point
RECURSIVE StrLess(_, _)
StrLess(a, b) ==
  IF b = <<>> THEN FALSE
  ELSE IF a = <<>> THEN TRUE
  ELSE IF a[1] = b[1] THEN StrLess(Tail(a), Tail(b))
  ELSE CodePoint(a[1]) < CodePoint(b[1])

----------------------------------------------------------------------------
(* The program's constants.                                                *)

Txt_ONLINE == <<"O","N","L","I","N","E">>
Txt_OFFLINE == <<"O","F","F","L","I","N","E">>
Txt_EXPIRED == <<"E","X","P","I","R","E","D">>
Txt_VALID == <<"V","A","L","I","D">>
Txt_SEIZED == <<"S","E","I","Z","E","D">>
Txt_REDIRECT == <<"R","E","D","I","R","E","C","T"," ","T","O"," ","T","O","R">>
Txt_status == <<"s","t","a","t","u","s">>
Txt_ellipsis == <<".",".",".">>

\* STATUS_EMOJI, in the dict's insertion order (the order items() iterates)
STATUS_EMOJI ==
  << [key |-> Txt_ONLINE, emoji |-> "GREEN"],
     [key |-> Txt_OFFLINE, emoji |-> "RED"],
     [key |-> Txt_EXPIRED, emoji |-> "WHITE"],
     [key |-> Txt_VALID, emoji |-> "GREEN"],
     [key |-> Txt_SEIZED, emoji |-> "BLUE"],
     [key |-> Txt_REDIRECT, emoji |-> "YELLOW"] >>

\* the character class of the regular expression in filter_expired_rows
FilterGlyphs == {"GREEN", "RED", "WHITE", "BLUE", "YELLOW"}

\* max_width, the default of calculate_column_widths
max_width == 80

\* max_widths of calculate_column_widths
max_widths == <<60, 15, 50, 80, 30>>

----------------------------------------------------------------------------
(* parse_markdown_table                                                    *)

\* 1-based index of the first line containing '|', 0 when there is none
TableStart(lines) ==
  LET at == {i \in 1..Len(lines) : HasChar(lines[i], PIPE)}
  IN IF at = {} THEN 0 ELSE SetMin(at)

\* the table taken to run to the end of the document
TableEnd_toEnd(lines, table_start) == Len(lines) + 1

\* 1-based index of the first line after the table start whose stripped text
\* has no '|'; Len(lines) + 1 when the loop ends without a break
TableEnd(lines, table_start) ==
  LET at == {i \in (table_start + 1)..Len(lines) : ~HasChar(strip(lines[i]), PIPE)}
  IN IF at = {} THEN Len(lines) + 1 ELSE SetMin(at)

\* headers: the non-blank pieces of the first table line, stripped
ParseHeaders(line) ==
  LET pieces == split(line, PIPE)
      kept == SelectSeq(pieces, LAMBDA h : strip(h) # <<>>)
  IN [i \in 1..Len(kept) |-> strip(kept[i])]

\* the cells of one data line: pieces stripped, an empty first and an empty
\* last piece removed
ParseCells(line) ==
  LET pieces == split(line, PIPE)
      c0 == [i \in 1..Len(pieces) |-> strip(pieces[i])]
      c1 == IF c0 # <<>> /\ c0[1] = <<>> THEN Tail(c0) ELSE c0
      c2 == IF c1 # <<>> /\ c1[Len(c1)] = <<>> THEN SubSeq(c1, 1, Len(c1) - 1) ELSE c1
  IN c2

\* rows: every non-blank line after the first two table lines that has a cell
RECURSIVE ParseRows(_)
ParseRows(tlines) ==
  IF tlines = <<>> THEN <<>>
  ELSE LET cells == ParseCells(tlines[1])
       IN (IF strip(tlines[1]) # <<>> /\ cells # <<>> THEN <<cells>> ELSE <<>>)
            \o ParseRows(Tail(tlines))

\* the result once the table is located: lines[table_start .. table_end - 1]
\* (1-based) are table_lines
ParseTable(lines, table_start, table_end) ==
  [headers |-> ParseHeaders(lines[table_start]),
   rows |-> ParseRows(SubSeq(lines, table_start + 2, table_end - 1)),
   content_before |-> join(SubSeq(lines, 1, table_start - 1), <<NL>>),
   content_after |-> join(SubSeq(lines, table_end, Len(lines)), <<NL>>)]

\* no table: the text returned as suffix instead of prefix
ParseFrom_asSuffix(content, lines, table_start) ==
  IF table_start = 0
  THEN [headers |-> <<>>, rows |-> <<>>,
        content_before |-> <<>>, content_after |-> content]
  ELSE ParseTable(lines, table_start, TableEnd(lines, table_start))

\* the result once the table start is known
ParseFrom(content, lines, table_start) ==
  IF table_start = 0
  THEN [headers |-> <<>>, rows |-> <<>>,
        content_before |-> content, content_after |-> <<>>]
  ELSE ParseTable(lines, table_start, TableEnd(lines, table_start))

\* lines = content.split('\n')
ParseLines(content, lines) == ParseFrom(content, lines, TableStart(lines))

parse_markdown_table(content) == ParseLines(content, split(content, NL))

\* 0-based index of the first header equal to "status" ignoring case, else -1
find_status_column(headers) ==
  LET at == {i \in 1..Len(headers) : lower(headers[i]) = Txt_status}
  IN IF at = {} THEN -1 ELSE SetMin(at) - 1

----------------------------------------------------------------------------
(* filter_expired_rows                                                     *)

\* re.sub(r'^[glyphs]\s*', '', status)
StripGlyph(status) ==
  IF status # <<>> /\ status[1] \in FilterGlyphs THEN lstrip(Tail(status)) ELSE status

\* whether the loop body appends the row to filtered
FilterKeeps(row, status_col, keep_offline) ==
  /\ Len(row) > status_col
  /\ LET status_clean == StripGlyph(strip(upper(row[status_col + 1])))
     IN \/ keep_offline
        \/ ~(Contains(status_clean, Txt_OFFLINE) \/ Contains(status_clean, Txt_EXPIRED))

filter_expired_rows(rows, status_col, keep_offline) ==
  IF status_col = -1 THEN rows
  ELSE SelectSeq(rows, LAMBDA row : FilterKeeps(row, status_col, keep_offline))

----------------------------------------------------------------------------
(* calculate_column_widths, add_status_emoji                               *)

Max2(a, b) == IF a >= b THEN a ELSE b

Min2(a, b) == IF a <= b THEN a ELSE b

\* the widths list before the caps: header length, raised by every cell of
\* the column (each counted as at most max_width)
RawWidth(headers, rows, i) ==
  LET cellw == {Min2(Len(rows[r][i]), max_width) :
                  r \in {q \in 1..Len(rows) : Len(rows[q]) >= i}}
  IN SetMax({Len(headers[i])} \cup cellw)

calculate_column_widths(headers, rows) ==
  [i \in 1..Len(headers) |->
     IF i <= Len(max_widths)
     THEN Min2(RawWidth(headers, rows, i), max_widths[i])
     ELSE RawWidth(headers, rows, i)]

\* the check for a glyph already present, left out
HasEmoji_never(status) == FALSE

\* any(emoji in status for emoji in STATUS_EMOJI.values())
HasEmoji(status) ==
  \E k \in 1..Len(STATUS_EMOJI) : HasChar(status, STATUS_EMOJI[k].emoji)

add_status_emoji(status) ==
  LET status_clean == upper(strip(status))
      hits == {k \in 1..Len(STATUS_EMOJI) : Contains(status_clean, STATUS_EMOJI[k].key)}
  IN IF HasEmoji(status) THEN status
     ELSE IF hits = {} THEN status
     ELSE <<STATUS_EMOJI[SetMin(hits)].emoji, " ">> \o strip(status)

----------------------------------------------------------------------------
(* rebuild_markdown_table                                                  *)

\* the rows after the decoration loop (rows is mutated in place there)
DecorateRows(headers, rows, add_emoji) ==
  LET status_col == find_status_column(headers)
  IN IF add_emoji /\ status_col # -1
     THEN [r \in 1..Len(rows) |->
             IF Len(rows[r]) > status_col
             THEN [rows[r] EXCEPT ![status_col + 1] = add_status_emoji(rows[r][status_col + 1])]
             ELSE rows[r]]
     ELSE rows

\* while len(row) < len(headers): row.append('')
PadRow(row, n) == IF Len(row) >= n THEN row ELSE row \o [i \in 1..(n - Len(row)) |-> <<>>]

\* a long cell cut to the width, without the marker
BeautyCell_cut(cell, w) == ljust(SliceTo(cell, w), w)

\* one emitted cell of a beautified data row
BeautyCell(cell, w) ==
  ljust(IF Len(cell) > w THEN SliceTo(cell, w - 3) \o Txt_ellipsis ELSE cell, w)

\* '| ' + ' | '.join(cells) + ' |'
BeautyLine(cells) == <<"|", " ">> \o join(cells, <<" ", "|", " ">>) \o <<" ", "|">>

\* '|' + '|'.join(cells) + '|'
CompactLine(cells) == <<"|">> \o join(cells, <<"|">>) \o <<"|">>

\* the rows emitted without the padding loop
EmittedCells_unpadded(row, n) == SliceTo(row, n)

\* the cells a data row emits: row[:len(headers)] after the padding loop
EmittedCells(row, n) == SliceTo(PadRow(row, n), n)

\* cells of a beautified data row, from the emitted cells of the record
BeautyCells(emitted, widths) ==
  [i \in 1..Len(emitted) |->
     IF i <= Len(widths) THEN BeautyCell(emitted[i], widths[i]) ELSE emitted[i]]

\* row_str of a beautified data row
BeautyRow(row, n, widths) == BeautyLine(BeautyCells(EmittedCells(row, n), widths))

\* header_row of the beautify branch
BeautyHeader(headers, widths) ==
  BeautyLine([i \in 1..Len(headers) |->
                IF i <= Len(widths) THEN ljust(headers[i], widths[i]) ELSE headers[i]])

\* separator of the beautify branch
BeautySeparator(headers, widths) ==
  BeautyLine([i \in 1..Len(headers) |->
                IF i <= Len(widths) THEN Repeat("-", widths[i]) ELSE <<"-", "-", "-">>])

BeautyTableLines(headers, rows, widths) ==
  <<BeautyHeader(headers, widths), BeautySeparator(headers, widths)>>
    \o [r \in 1..Len(rows) |-> BeautyRow(rows[r], Len(headers), widths)]

CompactTableLines(headers, rows) ==
  <<CompactLine(headers),
    CompactLine([i \in 1..Len(headers) |-> <<" ", "-", "-", "-", "-", "-", "-", " ">>])>>
    \o [r \in 1..Len(rows) |-> CompactLine(EmittedCells(rows[r], Len(headers)))]

\* table_lines once the status cells are decorated
RenderLines(headers, decorated, beautify) ==
  IF beautify
  THEN BeautyTableLines(headers, decorated, calculate_column_widths(headers, decorated))
  ELSE CompactTableLines(headers, decorated)

\* table_lines, for a non-empty rows
TableLines(headers, rows, beautify, add_emoji) ==
  RenderLines(headers, DecorateRows(headers, rows, add_emoji), beautify)

\* result, from before = content_before.rstrip(), the table's text and
\* after = content_after.lstrip()
Assemble(before, table, after) ==
  (IF before # <<>> THEN before \o <<NL, NL>> ELSE <<>>)
    \o table
    \o (IF after # <<>> THEN <<NL, NL>> \o after ELSE <<NL>>)

\* the text around the table joined as it is, not trimmed
rebuild_untrimmed(headers, rows, content_before, content_after, beautify, add_emoji) ==
  IF rows = <<>> THEN content_before \o content_after
  ELSE Assemble(content_before,
                join(TableLines(headers, rows, beautify, add_emoji), <<NL>>),
                content_after)

rebuild_markdown_table(headers, rows, content_before, content_after, beautify, add_emoji) ==
  IF rows = <<>> THEN content_before \o content_after
  ELSE Assemble(rstrip(content_before),
                join(TableLines(headers, rows, beautify, add_emoji), <<NL>>),
                lstrip(content_after))

----------------------------------------------------------------------------
(* process_markdown_file: what one call does to a file holding `content`.  *)
(* wrote: whether the file is written; content: its text afterwards;       *)
(* handed: the rows given to rebuild_markdown_table (<<>> when not called).*)

\* the call that writes the file: rows are the rows handed to
\* rebuild_markdown_table, n the number of parsed rows
ProcessWrite(t, rows, n, beautify, add_emoji) ==
  [wrote |-> TRUE,
   content |-> rebuild_markdown_table(t.headers, rows, t.content_before,
                                      t.content_after, beautify, add_emoji),
   removed |-> n - Len(rows), kept |-> Len(rows), handed |-> rows]

\* a return that leaves the file alone
ProcessSkip(content, removed, kept) ==
  [wrote |-> FALSE, content |-> content, removed |-> removed, kept |-> kept,
   handed |-> <<>>]

\* the part after `original_count = len(rows)`
ProcessFiltered(content, t, filtered_rows, dry_run, beautify, add_emoji) ==
  IF ~dry_run THEN ProcessWrite(t, filtered_rows, Len(t.rows), beautify, add_emoji)
  ELSE ProcessSkip(content, Len(t.rows) - Len(filtered_rows), Len(filtered_rows))

\* the part after `status_col = find_status_column(headers)`
ProcessTable(content, t, status_col, dry_run, clean, beautify, add_emoji, keep_offline) ==
  IF status_col = -1
  THEN IF beautify /\ ~dry_run THEN ProcessWrite(t, t.rows, Len(t.rows), beautify, FALSE)
       ELSE ProcessSkip(content, 0, Len(t.rows))
  ELSE ProcessFiltered(content, t,
                       IF clean THEN filter_expired_rows(t.rows, status_col, keep_offline)
                       ELSE t.rows,
                       dry_run, beautify, add_emoji)

\* the part after `parse_markdown_table(content)`
ProcessParsed(content, t, dry_run, clean, beautify, add_emoji, keep_offline) ==
  IF t.rows = <<>> THEN ProcessSkip(content, 0, 0)
  ELSE ProcessTable(content, t, find_status_column(t.headers), dry_run, clean, beautify,
                    add_emoji, keep_offline)

process_markdown_file(content, dry_run, clean, beautify, add_emoji, keep_offline) ==
  ProcessParsed(content, parse_markdown_table(content), dry_run, clean, beautify,
                add_emoji, keep_offline)

----------------------------------------------------------------------------
(* get_upstream_diff and merge_upstream_entries, for one file.             *)

\* the result of `git show upstream/main:<file>` with a non-zero return code
Absent == <<"ABSENT">>

\* keys compared ignoring case
NewRows_ignoreCase(local_rows, upstream_rows) ==
  LET local_keys == {IF local_rows[r] # <<>> THEN lower(local_rows[r][1]) ELSE <<>> :
                       r \in 1..Len(local_rows)}
  IN SelectSeq(upstream_rows, LAMBDA row : row # <<>> /\ lower(row[1]) \notin local_keys)

\* rows with an empty first cell skipped
NewRows_skipEmptyKey(local_rows, upstream_rows) ==
  LET local_keys == {IF local_rows[r] # <<>> THEN local_rows[r][1] ELSE <<>> :
                       r \in 1..Len(local_rows)}
  IN SelectSeq(upstream_rows,
               LAMBDA row : row # <<>> /\ row[1] # <<>> /\ row[1] \notin local_keys)

\* new_rows of the loop of get_upstream_diff
NewRows(local_rows, upstream_rows) ==
  LET local_keys == {IF local_rows[r] # <<>> THEN local_rows[r][1] ELSE <<>> :
                       r \in 1..Len(local_rows)}
  IN SelectSeq(upstream_rows, LAMBDA row : row # <<>> /\ row[1] \notin local_keys)

\* new_entries[file]['new_rows'], <<>> when the file gets no entry
\* the diff of one file once both tables are parsed: nothing when either has
\* no rows (`continue`), else new_rows
DiffRows(local_rows, upstream_rows) ==
  IF local_rows = <<>> \/ upstream_rows = <<>> THEN <<>>
  ELSE NewRows(local_rows, upstream_rows)

\* new_entries[file]['new_rows'], <<>> when the file gets no entry
get_upstream_diff(fetch_ok, local_content, upstream_content) ==
  IF ~fetch_ok \/ upstream_content = Absent THEN <<>>
  ELSE DiffRows(parse_markdown_table(local_content).rows,
                parse_markdown_table(upstream_content).rows)

\* key=lambda x: x[0].lower() if x else ''
SortKey(x) == IF x # <<>> THEN lower(x[1]) ELSE <<>>

\* an unstable sort: the element goes before the elements of equal key
Insert_beforeEqual(sorted, x) ==
  LET after == {j \in 1..Len(sorted) : ~StrLess(SortKey(sorted[j]), SortKey(x))}
      at == IF after = {} THEN Len(sorted) + 1 ELSE SetMin(after)
  IN SubSeq(sorted, 1, at - 1) \o <<x>> \o SubSeq(sorted, at, Len(sorted))

\* list.sort(key=...) is stable: each element goes after the elements already
\* placed whose key is not greater
Insert(sorted, x) ==
  LET after == {j \in 1..Len(sorted) : StrLess(SortKey(x), SortKey(sorted[j]))}
      at == IF after = {} THEN Len(sorted) + 1 ELSE SetMin(after)
  IN SubSeq(sorted, 1, at - 1) \o <<x>> \o SubSeq(sorted, at, Len(sorted))

RECURSIVE SortFrom(_, _)
SortFrom(sorted, rest) ==
  IF rest = <<>> THEN sorted ELSE SortFrom(Insert(sorted, rest[1]), Tail(rest))

SortRows(rows) == SortFrom(<<>>, rows)

\* the new rows assigned to rows instead of appended
MergedRows_onlyNew(rows, new_rows) == SortRows(new_rows)

\* rows after rows.extend(new_rows) and rows.sort(...)
MergedRows(rows, new_rows) == SortRows(rows \o new_rows)

\* the file's text after the merge and the rows given to
\* rebuild_markdown_table, which are the sorted rows
MergeRender(t, rows) ==
  [content |-> rebuild_markdown_table(t.headers, rows, t.content_before,
                                      t.content_after, TRUE, TRUE),
   handed |-> rows]

\* the part of the body of `if not dry_run:` after parse_markdown_table
MergeParsed(t, new_rows) == MergeRender(t, MergedRows(t.rows, new_rows))

\* the body of `if not dry_run:` for one file
MergeFile(content, new_rows) == MergeParsed(parse_markdown_table(content), new_rows)

\* what a merge that wrote the file reports
MergeWrote(m, total_new) ==
  [wrote |-> TRUE, content |-> m.content, total_new |-> total_new, handed |-> m.handed]

\* merge_upstream_entries once new_entries is known
merge_upstream_entries(new_rows, content, dry_run) ==
  IF new_rows = <<>> \/ dry_run
  THEN [wrote |-> FALSE, content |-> content, total_new |-> Len(new_rows),
        handed |-> <<>>]
  ELSE MergeWrote(MergeFile(content, new_rows), Len(new_rows))

----------------------------------------------------------------------------
(* The documents the model starts from.                                    *)

\* a sync is not started once it would grow the table beyond this
MaxRows == 6

\* |Name|Status|
Hdr_NameStatus ==
  <<"|","N","a","m","e","|","S","t","a","t","u","s","|">>

\* |Name|Note|
Hdr_NameNote ==
  <<"|","N","a","m","e","|","N","o","t","e","|">>

\* |---|---|
Sep_Line ==
  <<"|","-","-","-","|","-","-","-","|">>

\* |Foo|OFFLINE|
Row_Foo ==
  <<"|","F","o","o","|","O","F","F","L","I","N","E","|">>

\* | bar | online |
Row_bar ==
  <<"|"," ","b","a","r"," ","|"," ","o","n","l","i","n","e"," ","|">>

\* |Baz|
Row_Baz ==
  <<"|","B","a","z","|">>

\* |Qux|online since 1 jan [GREEN]|
Row_Qux ==
  <<"|","Q","u","x","|","o","n","l","i","n","e"," ","s","i","n","c","e"," ",
    "1"," ","j","a","n"," ","GREEN","|">>

\* |new|valid|
Row_new ==
  <<"|","n","e","w","|","v","a","l","i","d","|">>

\* |foo|x expired|
Row_foo ==
  <<"|","f","o","o","|","x"," ","e","x","p","i","r","e","d","|">>

\* | |seized|
Row_nokey ==
  <<"|"," ","|","s","e","i","z","e","d","|">>

\* T\n
Pre_T ==
  <<"T",NL>>

\* T \n\n
Pre_Tws ==
  <<"T"," ",NL,NL>>

\* \n\n  tail
Suf_tail ==
  <<NL,NL," "," ","t","a","i","l">>

\* \ntail\n|z|q|\n
Suf_pipe ==
  <<NL,"t","a","i","l",NL,"|","z","|","q","|",NL>>

\* T\n\nfoo
Doc_prose ==
  <<"T",NL,NL,"f","o","o">>

\* a row whose key is one character longer than the first column's cap
Row_long ==
  <<"|">> \o Repeat("x", max_widths[1] + 1) \o <<"|","o","n","l","i","n","e","|">>

\* a document: text before the table, the table's lines, text after it
Doc(pre, tlines, suf) == pre \o join(tlines, <<NL>>) \o suf

Tables ==
  { <<Hdr_NameStatus, Sep_Line, Row_Foo, Row_bar>>,
    <<Hdr_NameStatus, Sep_Line, Row_Baz, Row_Qux>>,
    <<Hdr_NameNote, Sep_Line, Row_bar>>,
    <<Hdr_NameStatus, Sep_Line>> }

Surrounds == { <<<<>>, <<>>>>, <<Pre_T, Suf_tail>>, <<Pre_Tws, Suf_pipe>> }

LocalDocs ==
  {Doc(sr[1], t, sr[2]) : sr \in Surrounds, t \in Tables} \cup {Doc_prose, <<>>}

UpstreamDocs ==
  { Absent,
    Doc(<<>>, <<Hdr_NameStatus, Sep_Line, Row_Foo, Row_bar, Row_new>>, <<>>),
    Doc(Pre_T, <<Hdr_NameStatus, Sep_Line, Row_nokey, Row_long, Row_foo>>, <<>>) }

----------------------------------------------------------------------------
(* main(): `args` are the command line's flags, `local` is the text of one *)
(* markdown file of the repository and `upstream` what                     *)
(* `git show upstream/main:<file>` gives for it.  One run of main() syncs  *)
(* (with --sync), then processes the file (with --clean or --beautify);    *)
(* the tool may then be run again with the same flags.  `last` records the *)
(* last operation: the text it read (input), whether it wrote the file,    *)
(* the rows it handed to rebuild_markdown_table and what it returned.      *)

NoOp ==
  [op |-> "none", input |-> <<>>, wrote |-> FALSE, handed |-> <<>>,
   new_rows |-> <<>>, removed |-> 0, kept |-> 0]

\* the flags of argparse; add_emoji is `args.add_emoji and not args.no_emoji`
ArgSets ==
  {a \in [sync : BOOLEAN, clean : BOOLEAN, beautify : BOOLEAN, dry_run : BOOLEAN,
          add_emoji : BOOLEAN, keep_offline : BOOLEAN] :
     a.sync \/ a.clean \/ a.beautify}

Init ==
  /\ args \in ArgSets
  /\ local \in LocalDocs
  /\ upstream \in UpstreamDocs
  /\ last = NoOp
  /\ pc = "start"
  /\ inp = <<>>
  /\ out = <<>>

\* what get_upstream_diff leaves behind: new_entries
DiffDone(new_rows) ==
  /\ Len(parse_markdown_table(local).rows) + Len(new_rows) <= MaxRows
  /\ last' = [NoOp EXCEPT !.op = "diff", !.input = local, !.new_rows = new_rows]

\* the file and the record of the operation after a merge that returned r
MergeDone(r) ==
  /\ local' = r.content
  /\ last' = [last EXCEPT !.op = "merge", !.input = local, !.wrote = r.wrote,
                          !.handed = r.handed]

\* the file and the record of the operation after process_markdown_file
\* returned r
ProcessDone(r) ==
  /\ local' = r.content
  /\ last' = [NoOp EXCEPT !.op = "process", !.input = local, !.wrote = r.wrote,
                          !.handed = r.handed, !.removed = r.removed, !.kept = r.kept]

\* --sync, first half: merge_upstream_entries calls get_upstream_diff, which
\* reads both versions of the file and writes nothing
GetDiff(fetch_ok) ==
  /\ pc = "start"
  /\ args.sync
  /\ DiffDone(get_upstream_diff(fetch_ok, local, upstream))
  /\ pc' = "diffed"
  /\ UNCHANGED <<args, local, upstream, inp, out>>

\* --sync, second half: the loop of merge_upstream_entries over new_entries
Merge ==
  /\ pc = "diffed"
  /\ MergeDone(merge_upstream_entries(last.new_rows, local, args.dry_run))
  /\ pc' = IF args.clean \/ args.beautify THEN "synced" ELSE "start"
  /\ UNCHANGED <<args, upstream, inp, out>>

\* --clean and/or --beautify: process_markdown_file on the file
Process ==
  /\ \/ pc = "start" /\ ~args.sync
     \/ pc = "synced"
  /\ args.clean \/ args.beautify
  /\ ProcessDone(process_markdown_file(local, args.dry_run, args.clean, args.beautify,
                                       args.add_emoji, args.keep_offline))
  /\ pc' = "start"
  /\ UNCHANGED <<args, upstream, inp, out>>

Next ==
  \/ \E fetch_ok \in BOOLEAN : GetDiff(fetch_ok)
  \/ Merge
  \/ Process

Spec == Init /\ [][Next]_vars

----------------------------------------------------------------------------
(* The pure functions, each applied to inputs drawn from a bounded set.    *)
(* `inp` holds the arguments of the call, `out` what it returned and `pc`  *)
(* the position; the file variables are not used.                          *)

NoArgs ==
  [sync |-> FALSE, clean |-> FALSE, beautify |-> FALSE, dry_run |-> FALSE,
   add_emoji |-> FALSE, keep_offline |-> FALSE]

NoFiles == args = NoArgs /\ local = <<>> /\ upstream = Absent /\ last = NoOp

\* all sequences over S of length at most n
SeqsUpTo(S, n) == UNION {[1..k -> S] : k \in 0..n}

(* parse_markdown_table on documents of at most MaxDocLines lines *)

MaxDocLines == 3

DocLinePool ==
  { <<>>, <<" ">>, <<"T">>, <<"|","N","a","m","e","|","S","t","a","t","u","s","|">>,
    <<"|","-","-","-","|","-","-","-","|">>, <<"|"," ","a"," ","|"," ","o","n","l","i","n","e"," ","|">>, <<"b","|">> }

ExtractDocs == {join(ls, <<NL>>) : ls \in SeqsUpTo(DocLinePool, MaxDocLines)}

InitExtract == NoFiles /\ pc = "extract" /\ inp \in ExtractDocs /\ out = <<>>

Extract ==
  /\ pc = "extract"
  /\ out' = parse_markdown_table(inp)
  /\ pc' = "extracted"
  /\ UNCHANGED <<args, local, upstream, last, inp>>

SpecExtract == InitExtract /\ [][Extract]_vars

(* filter_expired_rows on lists of at most MaxFilterRows rows *)

MaxFilterRows == 2

FilterRowPool ==
  { <<<<"F","o","o">>>>,
    <<<<"F","o","o">>, <<"O","F","F","L","I","N","E">>>>,
    <<<<"B","a","r">>, <<"RED"," ","o","f","f","l","i","n","e">>>>,
    <<<<"B","a","z">>, <<"x"," ","E","x","p","i","r","e","d">>>>,
    <<<<"Q","u","x">>, <<"o","n","l","i","n","e">>>>,
    <<<<"E","X","P","I","R","E","D">>, <<>>>> }

InitFilter ==
  /\ NoFiles
  /\ pc = "filter"
  /\ inp \in [rows : SeqsUpTo(FilterRowPool, MaxFilterRows), status_col : {-1, 0, 1},
              keep_offline : BOOLEAN]
  /\ out = <<>>

Filter ==
  /\ pc = "filter"
  /\ out' = filter_expired_rows(inp.rows, inp.status_col, inp.keep_offline)
  /\ pc' = "filtered"
  /\ UNCHANGED <<args, local, upstream, last, inp>>

SpecFilter == InitFilter /\ [][Filter]_vars

(* add_status_emoji, applied once and then to its own result *)

MaxPad == 1

StatusWords ==
  { <<>>, <<"o","n","l","i","n","e">>, <<"O","F","F","L","I","N","E">>, <<"E","x","p","i","r","e","d">>, <<"v","a","l","i","d">>,
    <<"S","e","i","z","e","d">>, <<"r","e","d","i","r","e","c","t"," ","t","o"," ","t","o","r">>, <<"n","/","a">>, <<"o","n","l","i","n","e"," ","e","x","p","i","r","e","d">> }

\* a status word, alone or with a glyph before or after it
GlyphForms(w) ==
  {w} \cup UNION {{<<g, " ">> \o w, <<g>> \o w, w \o <<" ", g>>} : g \in {"GREEN", "WHITE"}}

StatusCells ==
  {Repeat(" ", l) \o c \o Repeat(" ", r) :
     l \in 0..MaxPad, r \in 0..MaxPad, c \in UNION {GlyphForms(w) : w \in StatusWords}}

InitDecorate == NoFiles /\ pc = "decorate" /\ inp \in StatusCells /\ out = <<>>

Decorate ==
  /\ pc = "decorate"
  /\ out' = <<add_status_emoji(inp)>>
  /\ pc' = "once"
  /\ UNCHANGED <<args, local, upstream, last, inp>>

DecorateAgain ==
  /\ pc = "once"
  /\ out' = Append(out, add_status_emoji(out[1]))
  /\ pc' = "twice"
  /\ UNCHANGED <<args, local, upstream, last, inp>>

NextDecorate == Decorate \/ DecorateAgain

SpecDecorate == InitDecorate /\ [][NextDecorate]_vars

(* the diff of get_upstream_diff and the sort of merge_upstream_entries, on *)
(* record lists of at most MaxDiffRows rows                                *)

MaxDiffRows == 2

DiffRowPool ==
  { <<<<"A">>, <<"O","N","L","I","N","E">>>>,
    <<<<"a">>, <<"O","N","L","I","N","E">>>>,
    <<<<"A">>, <<"O","F","F","L","I","N","E">>>>,
    <<<<"B">>>>,
    <<<<>>, <<"O","N","L","I","N","E">>>> }

InitDiff ==
  /\ NoFiles
  /\ pc = "diff"
  /\ inp \in [local_rows : SeqsUpTo(DiffRowPool, MaxDiffRows),
              upstream_rows : SeqsUpTo(DiffRowPool, MaxDiffRows)]
  /\ out = <<>>

Diff ==
  /\ pc = "diff"
  /\ out' = [new_rows |-> DiffRows(inp.local_rows, inp.upstream_rows), merged |-> <<>>]
  /\ pc' = "diffed"
  /\ UNCHANGED <<args, local, upstream, last, inp>>

\* merge_upstream_entries merges only a file that has new rows
MergeSort ==
  /\ pc = "diffed"
  /\ out.new_rows # <<>>
  /\ out' = [out EXCEPT !.merged = MergedRows(inp.local_rows, out.new_rows)]
  /\ pc' = "merged"
  /\ UNCHANGED <<args, local, upstream, last, inp>>

NextDiff == Diff \/ MergeSort

SpecDiff == InitDiff /\ [][NextDiff]_vars

(* rebuild_markdown_table on a table of at most MaxRenderRows records, with *)
(* no text around it                                                       *)

MaxRenderRows == 2

\* header lists as the extractor returns them: no header is blank
RenderHeaderPool ==
  { <<>>,
    <<<<"N","a","m","e">>>>,
    <<<<"N","a","m","e">>, <<"S","t","a","t","u","s">>>>,
    <<<<"N","a","m","e">>, <<"S","t","a","t","u","s"," ","o","f"," ","t","h","e"," ","s","i","t","e">>>> }

\* records as the extractor returns them: none without a cell
RenderRowPool ==
  { <<<<"a">>>>,
    <<<<>>, <<"o","n","l","i","n","e">>>>,
    <<<<"b">>, <<"v","a","l","i","d">>, <<"c">>>>,
    <<Repeat("x", max_widths[1] + 1), <<"o","f","f","l","i","n","e"," ","s","i","n","c","e"," ","1"," ","j","a","n">>>> }

InitRender ==
  /\ NoFiles
  /\ pc = "render"
  /\ inp \in [headers : RenderHeaderPool,
              rows : SeqsUpTo(RenderRowPool, MaxRenderRows) \ {<<>>},
              beautify : BOOLEAN, add_emoji : BOOLEAN]
  /\ out = <<>>

Render ==
  /\ pc = "render"
  /\ out' = rebuild_markdown_table(inp.headers, inp.rows, <<>>, <<>>, inp.beautify,
                                   inp.add_emoji)
  /\ pc' = "rendered"
  /\ UNCHANGED <<args, local, upstream, last, inp>>

SpecRender == InitRender /\ [][Render]_vars

----------------------------------------------------------------------------
(* telegram_monitor.py: the URLs of a markdown file are checked in a batch *)
(* (run_checks) and the file's status cells are updated from the results   *)
(* (update_markdown_with_results).                                         *)

Txt_ERROR == <<"E","R","R","O","R">>
Txt_FLOOD == <<"F","L","O","O","D">>
Txt_INVALID == <<"I","N","V","A","L","I","D">>
Txt_UNKNOWN == <<"U","N","K","N","O","W","N">>
Txt_https == <<"h","t","t","p","s",":","/","/","t",".","m","e","/">>
Txt_http == <<"h","t","t","p",":","/","/","t",".","m","e","/">>
Txt_tme == <<"t",".","m","e","/">>
Txt_joinchat == <<"j","o","i","n","c","h","a","t">>

Digits == {"0", "1", "2", "3", "4", "5", "6", "7", "8", "9"}

\* [a-zA-Z0-9_]
WordChars == DOMAIN ToUpper \cup DOMAIN ToLower \cup Digits \cup {"_"}

\* [^\s\)\]|>]
IsUrlChar(c) == ~IsSpace(c) /\ c \notin {")", "]", "|", ">"}

\* [a-zA-Z0-9_-]
IsInviteChar(c) == c \in WordChars \cup {"-"}

\* [a-zA-Z0-9_]
IsWordChar(c) == c \in WordChars

\* the character classes of the patterns, by name
InClass(class, c) ==
  CASE class = "url" -> IsUrlChar(c)
    [] class = "invite" -> IsInviteChar(c)
    [] class = "word" -> IsWordChar(c)

\* the index of the last character of the longest run of characters of the
\* class that starts at index from; from - 1 when there is none
RunEnd(s, from, class) ==
  LET stops == {i \in from..Len(s) : ~InClass(class, s[i])}
  IN IF stops = {} THEN Len(s) ELSE SetMin(stops) - 1

\* s[i:] starts with p
StartsAt(s, i, p) == i + Len(p) - 1 <= Len(s) /\ SubSeq(s, i, i + Len(p) - 1) = p

\* the length of the scheme and host of a URL that starts at index i, 0
\* when none does: https?://t\.me/ followed by at least one URL character
UrlHead(s, i) ==
  IF StartsAt(s, i, Txt_https) /\ RunEnd(s, i + Len(Txt_https), "url") >= i + Len(Txt_https)
  THEN Len(Txt_https)
  ELSE IF StartsAt(s, i, Txt_http) /\ RunEnd(s, i + Len(Txt_http), "url") >= i + Len(Txt_http)
  THEN Len(Txt_http)
  ELSE 0

\* re.search(r'(https?://t\.me/[^\s\)\]|>]+)', s): start and end index of
\* the first match, <<0, 0>> when there is none
UrlSearch(s) ==
  LET at == {i \in 1..Len(s) : UrlHead(s, i) > 0}
  IN IF at = {} THEN <<0, 0>>
     ELSE <<SetMin(at), RunEnd(s, SetMin(at) + UrlHead(s, SetMin(at)), "url")>>

\* s.rstrip(c), for one character c
RStripChar(s, c) ==
  LET keep == {i \in 1..Len(s) : s[i] # c}
  IN IF keep = {} THEN <<>> ELSE SubSeq(s, 1, SetMax(keep))

\* url.rstrip('|').rstrip(')')
CleanUrl(url) == RStripChar(RStripChar(url, "|"), ")")

\* re.findall of the URL pattern: the matches from left to right
RECURSIVE FindUrls(_)
FindUrls(s) ==
  LET m == UrlSearch(s)
  IN IF m[1] = 0 THEN <<>>
     ELSE <<SubSeq(s, m[1], m[2])>> \o FindUrls(SubSeq(s, m[2] + 1, Len(s)))

\* the loop of extract_telegram_urls_from_markdown: each URL once, in order
RECURSIVE UniqueUrls(_, _)
UniqueUrls(urls, matches) ==
  IF matches = <<>> THEN urls
  ELSE UniqueUrls(IF \E k \in 1..Len(urls) : urls[k] = CleanUrl(matches[1])
                  THEN urls ELSE Append(urls, CleanUrl(matches[1])),
                  Tail(matches))

extract_telegram_urls_from_markdown(content) == UniqueUrls(<<>>, FindUrls(content))

\* re.search of p followed by at least one character of the class: whether
\* it matches
HasIdAfter(url, p, class) ==
  \E i \in 1..Len(url) : StartsAt(url, i, p) /\ RunEnd(url, i + Len(p), class) >= i + Len(p)

\* the usernames t\.me/([a-zA-Z0-9_]+)(?:\?|$|/) can match, leftmost first
ChannelMatches(url) ==
  {i \in 1..Len(url) :
     /\ StartsAt(url, i, Txt_tme)
     /\ RunEnd(url, i + Len(Txt_tme), "word") >= i + Len(Txt_tme)
     /\ \/ RunEnd(url, i + Len(Txt_tme), "word") = Len(url)
        \/ url[RunEnd(url, i + Len(Txt_tme), "word") + 1] \in {"?", "/"}}

ChannelName(url, i) == SubSeq(url, i + Len(Txt_tme), RunEnd(url, i + Len(Txt_tme), "word"))

\* the type parse_telegram_url returns: "invite", "channel" or "none"
UrlType(url) ==
  IF HasIdAfter(url, Txt_tme \o <<"+">>, "invite") THEN "invite"
  ELSE IF HasIdAfter(url, Txt_tme \o Txt_joinchat \o <<"/">>, "invite") THEN "invite"
  ELSE IF ChannelMatches(url) # {}
          /\ lower(ChannelName(url, SetMin(ChannelMatches(url))))
               \notin {Txt_joinchat, <<"a","d","d","s","t","i","c","k","e","r","s">>, <<"s","h","a","r","e">>}
  THEN "channel"
  ELSE "none"

parse_telegram_url(url) == UrlType(strip(url))

\* the statuses check_telegram_url can return for a URL, by what the
\* Telegram client answers or raises
CheckStatuses(url) ==
  CASE parse_telegram_url(url) = "invite" ->
         {Txt_VALID, Txt_EXPIRED, Txt_FLOOD, Txt_ERROR, Txt_UNKNOWN}
    [] parse_telegram_url(url) = "channel" ->
         {Txt_ONLINE, Txt_FLOOD, Txt_OFFLINE, Txt_ERROR}
    [] OTHER -> {Txt_INVALID}

\* status_map of update_markdown_with_results
status_map ==
  << [key |-> Txt_ONLINE, text |-> <<"GREEN", " ">> \o Txt_ONLINE],
     [key |-> Txt_VALID, text |-> <<"GREEN", " ">> \o Txt_VALID],
     [key |-> Txt_OFFLINE, text |-> <<"RED", " ">> \o Txt_OFFLINE],
     [key |-> Txt_EXPIRED, text |-> <<"RED", " ">> \o Txt_EXPIRED],
     [key |-> Txt_ERROR, text |-> <<"YELLOW", " ">> \o Txt_ERROR],
     [key |-> Txt_FLOOD, text |-> <<"YELLOW", " ">> \o Txt_FLOOD],
     [key |-> Txt_SEIZED, text |-> <<"BLUE", " ">> \o Txt_SEIZED] >>

\* new_status = status_map.get(status, f'[WHITE] {status}')
new_status(status) ==
  IF \E k \in 1..Len(status_map) : status_map[k].key = status
  THEN status_map[CHOOSE k \in 1..Len(status_map) : status_map[k].key = status].text
  ELSE <<"WHITE", " ">> \o status

\* f.readlines(): the lines, each with its newline
RECURSIVE ReadLines(_)
ReadLines(content) ==
  IF content = <<>> THEN <<>>
  ELSE IF ~HasChar(content, NL) THEN <<content>>
  ELSE <<SubSeq(content, 1, SetMin({i \in 1..Len(content) : content[i] = NL}))>>
         \o ReadLines(SubSeq(content, SetMin({i \in 1..Len(content) : content[i] = NL}) + 1,
                             Len(content)))

\* the status of the entry of results_map for url, <<>> when it has none:
\* the last result with that URL
ResultFor(results, url) ==
  IF \E k \in 1..Len(results) : results[k].url = url
  THEN results[SetMax({k \in 1..Len(results) : results[k].url = url})].status
  ELSE <<>>

\* the line with parts[2] replaced when it differs from the new status
SetStatus(line, parts, new) ==
  IF Len(parts) >= 3 /\ strip(parts[3]) # new
  THEN join([parts EXCEPT ![3] = <<" ">> \o new \o <<" ">>], <<PIPE>>)
  ELSE line

\* one line of the loop, m being the URL match in it
UpdateMatched(line, m, results) ==
  IF m[1] = 0 THEN line
  ELSE IF ResultFor(results, CleanUrl(SubSeq(line, m[1], m[2]))) = <<>> THEN line
  ELSE SetStatus(line, split(line, PIPE),
                 new_status(ResultFor(results, CleanUrl(SubSeq(line, m[1], m[2])))))

UpdateLine(line, results) == UpdateMatched(line, UrlSearch(line), results)

RECURSIVE Concat(_)
Concat(parts) == IF parts = <<>> THEN <<>> ELSE parts[1] \o Concat(Tail(parts))

\* the file's text after update_markdown_with_results
UpdateLines(lines, results) == Concat([k \in 1..Len(lines) |-> UpdateLine(lines[k], results)])

update_markdown_with_results(content, results) ==
  IF results = <<>> THEN content ELSE UpdateLines(ReadLines(content), results)

(* main() with --check: the URLs of the file `local` are checked in a batch *)
(* (`inp` are the URLs, `out` the results so far, what is saved to the      *)
(* output file, the order of checks and delays and whether the client was  *)
(* connected and authorized) and the file is updated.                      *)

MaxUrls == 3

MonRowPool ==
  { <<"|","h","t","t","p","s",":","/","/","t",".","m","e","/","+","a","|","V","A","L","I","D","|">>,
    <<"|","h","t","t","p","s",":","/","/","t",".","m","e","/","b","|"," ","o","f","f","l","i","n","e"," ","|">>,
    <<"|","h","t","t","p","s",":","/","/","t",".","m","e","/","s","h","a","r","e","|","x","|">> }

MonitorDocs ==
  {Concat([k \in 1..Len(rs) |-> rs[k] \o <<NL>>]) :
     rs \in {<<<<"|","L","i","n","k","|","S","t","a","t","u","s","|">>, <<"|","-","-","-","|","-","-","-","|">>>> \o r : r \in SeqsUpTo(MonRowPool, MaxUrls)}}

\* the output file: not written, and then without results
NotSaved == [written |-> FALSE, results |-> <<>>]

InitMonitor ==
  /\ args = NoArgs
  /\ upstream = Absent
  /\ last = NoOp
  /\ local \in MonitorDocs
  /\ pc = "main"
  /\ inp = <<>>
  /\ out = [results |-> <<>>, saved |-> NotSaved, steps |-> <<>>, connected |-> FALSE]

\* urls = extract_telegram_urls_from_markdown(args.check)
StartCheck ==
  /\ pc = "main"
  /\ inp' = extract_telegram_urls_from_markdown(local)
  /\ pc' = "run_checks"
  /\ UNCHANGED <<args, local, upstream, last, out>>

\* run_checks up to the loop: it returns [] without the API settings, without
\* a session file or with a session that is not authorized
Connect(ok) ==
  /\ pc = "run_checks"
  /\ pc' = IF ok THEN "loop" ELSE "returned"
  /\ out' = [out EXCEPT !.connected = ok]
  /\ UNCHANGED <<args, local, upstream, last, inp>>

\* the loop left on an ERROR as on a FLOOD
AfterCheck_stopOnError(status) ==
  IF status \in {Txt_FLOOD, Txt_ERROR} THEN "after_loop" ELSE "sleep"

\* where the loop goes after a check: `break` on FLOOD, else the delay
AfterCheck(status) == IF status = Txt_FLOOD THEN "after_loop" ELSE "sleep"

\* one turn of the loop up to the test for FLOOD
Check(status) ==
  /\ pc = "loop"
  /\ Len(out.results) < Len(inp)
  /\ status \in CheckStatuses(inp[Len(out.results) + 1])
  /\ out' = [out EXCEPT !.results = Append(@, [url |-> inp[Len(out.results) + 1],
                                               status |-> status]),
                        !.steps = Append(@, "check")]
  /\ pc' = AfterCheck(status)
  /\ UNCHANGED <<args, local, upstream, last, inp>>

\* await asyncio.sleep(CHECK_DELAY)
Sleep ==
  /\ pc = "sleep"
  /\ out' = [out EXCEPT !.steps = Append(@, "sleep")]
  /\ pc' = "loop"
  /\ UNCHANGED <<args, local, upstream, last, inp>>

\* the end of run_checks: the results are saved when an output file is given
Save(output_file) ==
  /\ \/ pc = "after_loop"
     \/ pc = "loop" /\ Len(out.results) = Len(inp)
  /\ out' = [out EXCEPT !.saved = IF output_file THEN [written |-> TRUE, results |-> out.results]
                                 ELSE NotSaved]
  /\ pc' = "returned"
  /\ UNCHANGED <<args, local, upstream, last, inp>>

\* updated = update_markdown_with_results(args.check, results)
Update ==
  /\ pc = "returned"
  /\ local' = update_markdown_with_results(local, out.results)
  /\ pc' = "updated"
  /\ UNCHANGED <<args, upstream, last, inp, out>>

NextMonitor ==
  \/ StartCheck
  \/ \E ok \in BOOLEAN : Connect(ok)
  \/ \E status \in {Txt_ONLINE, Txt_OFFLINE, Txt_VALID, Txt_EXPIRED, Txt_FLOOD, Txt_ERROR,
                    Txt_UNKNOWN, Txt_INVALID} : Check(status)
  \/ Sleep
  \/ \E output_file \in BOOLEAN : Save(output_file)
  \/ Update

SpecMonitor == InitMonitor /\ [][NextMonitor]_vars

(* process_markdown_file on documents whose table has no header or no       *)
(* record, and on one that has both                                        *)

ProcessDocs ==
  { <<"|"," ","|","\n","|","-","-","-","|","\n","|","a","|","b","|","\n","|","c","|">>,
    <<"T","\n","\n","|","|","\n","|","-","|","\n","|","a","|","o","n","l","i","n","e","|","\n","\n","t","a","i","l">>,
    <<"|","N","a","m","e","|","S","t","a","t","u","s","|","\n","|","-","-","-","|","-","-","-","|">>,
    <<"|","N","a","m","e","|","S","t","a","t","u","s","|","\n","|","-","-","-","|","-","-","-","|","\n","\n","t","a","i","l","\n">>,
    <<"|","N","a","m","e","|","S","t","a","t","u","s","|">>,
    <<"T","\n","\n","|","N","a","m","e","|","S","t","a","t","u","s","|","\n","|","-","-","-","|","-","-","-","|","\n","|","a","|","o","f","f","l","i","n","e","|","\n","|","b","|","o","n","l","i","n","e","|","\n">> }

InitProcess ==
  /\ NoFiles
  /\ pc = "process"
  /\ inp \in [content : ProcessDocs, dry_run : BOOLEAN, clean : BOOLEAN,
              beautify : BOOLEAN, add_emoji : BOOLEAN, keep_offline : BOOLEAN]
  /\ out = <<>>

ProcessFile ==
  /\ pc = "process"
  /\ out' = process_markdown_file(inp.content, inp.dry_run, inp.clean, inp.beautify,
                                  inp.add_emoji, inp.keep_offline)
  /\ pc' = "processed"
  /\ UNCHANGED <<args, local, upstream, last, inp>>

SpecProcess == InitProcess /\ [][ProcessFile]_vars

----------------------------------------------------------------------------
(* generate_statistics, on the markdown files of a repository: a file is a *)
(* name and a text.                                                        *)

\* SKIP_FILES
SKIP_FILES == {<<"r","e","a","d","m","e",".","m","d">>, <<"l","i","c","e","n","s","e">>, <<"l","i","c","e","n","s","e",".","m","d">>}

\* the counter the loop body raises for a row: "online", "offline" or "none"
RowBucket(row, status_col) ==
  IF status_col # -1 /\ Len(row) > status_col
  THEN IF Contains(upper(row[status_col + 1]), Txt_ONLINE)
          \/ Contains(upper(row[status_col + 1]), Txt_VALID)
       THEN "online"
       ELSE IF Contains(upper(row[status_col + 1]), Txt_OFFLINE)
               \/ Contains(upper(row[status_col + 1]), Txt_EXPIRED)
       THEN "offline"
       ELSE "none"
  ELSE "none"

\* the number of rows that raise the counter
BucketCount(rows, status_col, bucket) ==
  Cardinality({r \in 1..Len(rows) : RowBucket(rows[r], status_col) = bucket})

\* file_stats of a file with rows
FileStats(rows, status_col) ==
  [total |-> Len(rows),
   online |-> BucketCount(rows, status_col, "online"),
   offline |-> BucketCount(rows, status_col, "offline")]

\* md_file.stem: the name without its last suffix
Stem(name) ==
  LET dots == {i \in 2..Len(name) : name[i] = "."}
  IN IF dots = {} THEN name ELSE SubSeq(name, 1, SetMax(dots) - 1)

IsLetter(c) == c \in DOMAIN ToUpper \cup DOMAIN ToLower

\* str.title(): a letter is upper case after a character that is no letter,
\* lower case after a letter
Title(s) ==
  [i \in 1..Len(s) |->
     IF i = 1 \/ ~IsLetter(s[i - 1]) THEN upper(<<s[i]>>)[1] ELSE lower(<<s[i]>>)[1]]

\* md_file.stem.replace('_', ' ').title()
Category(name) == Title([i \in 1..Len(Stem(name)) |-> IF Stem(name)[i] = "_" THEN " " ELSE Stem(name)[i]])

\* stats after the loop body has run for one more file, t being its table
StatsWith(stats, name, t) ==
  IF t.rows = <<>> THEN stats
  ELSE [total_entries |-> stats.total_entries + Len(t.rows),
        online_entries |-> stats.online_entries
                             + BucketCount(t.rows, find_status_column(t.headers), "online"),
        offline_entries |-> stats.offline_entries
                              + BucketCount(t.rows, find_status_column(t.headers), "offline"),
        files |-> [n \in DOMAIN stats.files \cup {name} |->
                     IF n = name THEN FileStats(t.rows, find_status_column(t.headers))
                     ELSE stats.files[n]],
        by_type |-> [c \in DOMAIN stats.by_type \cup {Category(name)} |->
                       IF c = Category(name) THEN Len(t.rows) ELSE stats.by_type[c]]]

\* the loop over md_files
RECURSIVE StatsLoop(_, _)
StatsLoop(stats, md_files) ==
  IF md_files = <<>> THEN stats
  ELSE StatsLoop(StatsWith(stats, md_files[1].name,
                           parse_markdown_table(md_files[1].content)),
                 Tail(md_files))

\* files: the *.md files of the repository, in the order glob gives them
generate_statistics(files) ==
  StatsLoop([total_entries |-> 0, online_entries |-> 0, offline_entries |-> 0,
             files |-> <<>>, by_type |-> <<>>],
            SelectSeq(files, LAMBDA f : lower(f.name) \notin SKIP_FILES))

(* generate_statistics on at most MaxStatFiles files *)

MaxStatFiles == 2

StatNames == { <<"a",".","m","d">>, <<"b","_","c",".","m","d">>, <<"R","E","A","D","M","E",".","m","d">> }

StatContents ==
  { <<"|","N","a","m","e","|","S","t","a","t","u","s","|","\n","|","-","|","-","|","\n","|","a","|","GREEN"," ","O","N","L","I","N","E","|","\n","|","b","|","o","f","f","l","i","n","e","|","\n","|","c","|","x","|","\n","|","d","|">>,
    <<"|","N","a","m","e","|","N","o","t","e","|","\n","|","-","|","-","|","\n","|","a","|","o","n","l","i","n","e","|">>,
    <<"T","\n","\n","p","r","o","s","e">>,
    <<"|"," ","|","\n","|","-","|","\n","|","a","|","o","n","l","i","n","e","|">>,
    <<"|","N","a","m","e","|","S","t","a","t","u","s","|","\n","|","-","|","-","|">>,
    <<"|","N","a","m","e","|","S","t","a","t","u","s","|","\n","|","-","|","-","|","\n","|","a","|","o","n","l","i","n","e"," ","e","x","p","i","r","e","d","|","\n","|","b","|","I","N","V","A","L","I","D","|","\n","|","c","|","E","x","p","i","r","e","d","|">> }

\* the files of a directory have different names
StatRepos ==
  {fs \in SeqsUpTo([name : StatNames, content : StatContents], MaxStatFiles) :
     \A i, j \in 1..Len(fs) : i # j => fs[i].name # fs[j].name}

InitStats == NoFiles /\ pc = "stats" /\ inp \in StatRepos /\ out = <<>>

Stats ==
  /\ pc = "stats"
  /\ out' = generate_statistics(inp)
  /\ pc' = "counted"
  /\ UNCHANGED <<args, local, upstream, last, inp>>

SpecStats == InitStats /\ [][Stats]_vars

----------------------------------------------------------------------------
(* Notions the claims are stated with.                                     *)

Range(seq) == {seq[i] : i \in 1..Len(seq)}

Count(seq, x) == Cardinality({i \in 1..Len(seq) : seq[i] = x})

\* a and b hold the same records, each as many times
SameBag(a, b) ==
  /\ Len(a) = Len(b)
  /\ \A x \in Range(a) \cup Range(b) : Count(a, x) = Count(b, x)

\* the text of the table the extractor finds in a document: its table_lines
TableTextFrom(lines, table_start) ==
  IF table_start = 0 THEN <<>>
  ELSE join(SubSeq(lines, table_start, TableEnd(lines, table_start) - 1), <<NL>>)

TableTextLines(lines) == TableTextFrom(lines, TableStart(lines))

TableText(content) == TableTextLines(split(content, NL))

\* the file's text after process_markdown_file runs on it again, same flags
Rerun(content) ==
  process_markdown_file(content, FALSE, args.clean, args.beautify, args.add_emoji,
                        args.keep_offline).content

\* a status cell is terminal: it contains OFFLINE or EXPIRED, ignoring case
IsTerminal(cell) ==
  Contains(upper(cell), Txt_OFFLINE) \/ Contains(upper(cell), Txt_EXPIRED)

\* what the extractor returns for a document without a table
AbsentResult(content) ==
  [headers |-> <<>>, rows |-> <<>>, content_before |-> content, content_after |-> <<>>]

----------------------------------------------------------------------------
(* C1: beautified rendering is idempotent over a round trip: the table     *)
(* extracted from a beautified render and rendered again with the same     *)
(* flags has the same text as the first render.                            *)
(* Fails: a status cell that already holds a glyph beyond the column's cap *)
(* is not decorated, loses the glyph to truncation, and is decorated by    *)
(* the next render.                                                        *)
C1_RoundTripIdempotent ==
  (last.op = "process" /\ last.wrote /\ args.beautify /\ last.handed # <<>>)
    => TableText(Rerun(local)) = TableText(local)

----------------------------------------------------------------------------
C2_Dropped(row, status_col, keep_offline) ==
  /\ ~keep_offline
  /\ status_col # -1
  /\ Len(row) > status_col
  /\ IsTerminal(row[status_col + 1])

(* C2: filter returns exactly the input records, in order, minus those     *)
(* whose cell at the status index exists and is terminal while the         *)
(* keep-offline flag is false; nothing else is dropped, in particular not  *)
(* a record without a cell at the status index.                            *)
(* Fails: the loop appends only rows longer than the status index.         *)
C2_FilterExact ==
  pc = "filtered"
    => out = SelectSeq(inp.rows,
                       LAMBDA row : ~C2_Dropped(row, inp.status_col, inp.keep_offline))

----------------------------------------------------------------------------
C3_HasExpired(row, status_col) ==
  Len(row) > status_col /\ Contains(upper(row[status_col + 1]), Txt_EXPIRED)

C3_HasOffline(row, status_col) ==
  Len(row) > status_col /\ Contains(upper(row[status_col + 1]), Txt_OFFLINE)

(* C3: with the keep-offline flag set, filter still removes every record   *)
(* whose status cell contains EXPIRED and retains the records whose status *)
(* cell contains OFFLINE and not EXPIRED.                                  *)
(* Fails: with the flag set the loop appends every row.                    *)
C3_KeepOfflineRemovesExpired ==
  (pc = "filtered" /\ inp.keep_offline /\ inp.status_col # -1)
    => /\ \A i \in 1..Len(out) : ~C3_HasExpired(out[i], inp.status_col)
       /\ \A i \in 1..Len(inp.rows) :
            (C3_HasOffline(inp.rows[i], inp.status_col)
               /\ ~C3_HasExpired(inp.rows[i], inp.status_col))
              => inp.rows[i] \in Range(out)

----------------------------------------------------------------------------
(* C4: decoration is idempotent: decorating a decorated cell changes       *)
(* nothing, for cells with or without a glyph, a known status word or      *)
(* surrounding whitespace.                                                 *)
C4_DecorateIdempotent == pc = "twice" => out[2] = out[1]

\* a cell that the first decoration changed has been decorated twice
C4_Witness == pc = "twice" /\ out[1] # inp /\ inp[1] = " "

----------------------------------------------------------------------------
C5_NotLocal(local_rows, upstream_rows) ==
  SelectSeq(upstream_rows,
            LAMBDA row : \A i \in 1..Len(local_rows) : local_rows[i][1] # row[1])

(* C5 as written: the diff is exactly the upstream records whose first     *)
(* cell equals (case-sensitively) the first cell of no local record.       *)
(* Fails for an empty local record list: get_upstream_diff skips the file. *)
C5_DiffExact ==
  pc \in {"diffed", "merged"}
    => out.new_rows = C5_NotLocal(inp.local_rows, inp.upstream_rows)

(* C5 amended: for a non-empty local record list the diff is exactly, and  *)
(* in upstream order, the upstream records whose first cell equals         *)
(* (case-sensitively) the first cell of no local record; for an empty      *)
(* local record list the diff is empty.                                    *)
C5_DiffExactForNonEmptyLocal ==
  pc \in {"diffed", "merged"}
    => out.new_rows = IF inp.local_rows = <<>> THEN <<>>
                      ELSE C5_NotLocal(inp.local_rows, inp.upstream_rows)

\* a diff that took one upstream record and left another, equal to it but
\* for the case of its key, out
C5_Witness ==
  /\ pc = "diffed"
  /\ inp.local_rows # <<>>
  /\ out.new_rows # <<>>
  /\ out.new_rows # inp.upstream_rows
  /\ \E i, j \in 1..Len(inp.upstream_rows) :
       /\ inp.upstream_rows[i] \in Range(out.new_rows)
       /\ inp.upstream_rows[j] \notin Range(out.new_rows)
       /\ lower(inp.upstream_rows[i][1]) = lower(inp.upstream_rows[j][1])

----------------------------------------------------------------------------
(* C6 as written: no record with an empty first cell is ever in the diff.  *)
(* Fails: only a record without cells is skipped; the empty text is a key  *)
(* like any other.                                                         *)
C6_EmptyKeySkipped ==
  pc \in {"diffed", "merged"}
    => \A i \in 1..Len(out.new_rows) : out.new_rows[i][1] # <<>>

(* C6 amended: an upstream record with an empty first cell is in the diff  *)
(* exactly when the local record list is non-empty and no local record has *)
(* an empty first cell.                                                    *)
C6_EmptyKeyIsAKey ==
  pc \in {"diffed", "merged"}
    => \A i \in 1..Len(inp.upstream_rows) :
         inp.upstream_rows[i][1] = <<>>
           => (inp.upstream_rows[i] \in Range(out.new_rows)
                 <=> /\ inp.local_rows # <<>>
                     /\ \A j \in 1..Len(inp.local_rows) : inp.local_rows[j][1] # <<>>)

\* a diff that holds a record with an empty first cell
C6_Witness ==
  /\ pc = "diffed"
  /\ \E i \in 1..Len(out.new_rows) : out.new_rows[i][1] = <<>>

----------------------------------------------------------------------------
C7_MergeKeeps(local_rows, upstream_rows) ==
  /\ SameBag(last.handed, local_rows \o last.new_rows)
  /\ Range(last.new_rows) \subseteq Range(upstream_rows)

(* C7: reconciliation only adds: computing the diff writes no document, a  *)
(* sync that merges nothing leaves the document as it was, and the rows a  *)
(* sync hands to the layout engine are the local table's rows, each with   *)
(* its cells, and the new rows of the diff, which are upstream rows.       *)
C7_SyncOnlyAdds ==
  /\ last.op = "diff" => local = last.input
  /\ (last.op = "merge" /\ ~last.wrote) => local = last.input
  /\ (last.op = "merge" /\ last.wrote)
       => C7_MergeKeeps(parse_markdown_table(last.input).rows,
                        parse_markdown_table(upstream).rows)

\* a sync that merged new rows into a table and moved a local row
C7_Witness ==
  /\ last.op = "merge"
  /\ last.wrote
  /\ last.new_rows # <<>>
  /\ Len(last.handed) > Len(last.new_rows)
  /\ last.handed[1] \in Range(last.new_rows)

----------------------------------------------------------------------------
C8_Key(row) == lower(row[1])

C8_Sorted(m) ==
  \A i \in 1..(Len(m) - 1) : ~StrLess(C8_Key(m[i + 1]), C8_Key(m[i]))

C8_EmptyFirst(m) ==
  \A i, j \in 1..Len(m) : (i < j /\ C8_Key(m[j]) = <<>>) => C8_Key(m[i]) = <<>>

C8_Stable(m, c) ==
  \A k \in {C8_Key(c[i]) : i \in 1..Len(c)} :
    SelectSeq(m, LAMBDA row : C8_Key(row) = k) = SelectSeq(c, LAMBDA row : C8_Key(row) = k)

C8_Merged(m, c) ==
  SameBag(m, c) /\ C8_Sorted(m) /\ C8_EmptyFirst(m) /\ C8_Stable(m, c)

(* C8: the merged list is a permutation of the local records followed by   *)
(* the new ones, non-decreasing by lower-cased first cell, empty keys      *)
(* first, and stable: records with equal lower-cased keys keep the order   *)
(* they had in the concatenation.                                          *)
C8_MergeSortedStable ==
  pc = "merged" => C8_Merged(out.merged, inp.local_rows \o out.new_rows)

\* a merge that reordered the concatenation and met two different records
\* whose keys are equal once lower-cased
C8_Witness ==
  /\ pc = "merged"
  /\ out.merged # inp.local_rows \o out.new_rows
  /\ \E i, j \in 1..Len(out.merged) :
       /\ i < j
       /\ out.merged[i] # out.merged[j]
       /\ C8_Key(out.merged[i]) = C8_Key(out.merged[j])

----------------------------------------------------------------------------
C9_FirstNonBlank(lines) ==
  {i \in 1..Len(lines) : strip(lines[i]) # <<>> /\ \A j \in 1..(i - 1) : strip(lines[j]) = <<>>}

C9_FirstLineHasNone(lines) ==
  \E i \in C9_FirstNonBlank(lines) : ~HasChar(lines[i], PIPE)

(* C9 as written: a document whose first non-blank line has no delimiter   *)
(* gives an absent table, the whole text as prefix and an empty suffix.    *)
(* Fails: the table starts at the first line with a delimiter, wherever it *)
(* is.                                                                     *)
C9_FirstLineWithoutDelimiter ==
  (pc = "extracted" /\ C9_FirstLineHasNone(split(inp, NL))) => out = AbsentResult(inp)

(* C9 amended: a document none of whose lines has a delimiter gives an     *)
(* absent table, the whole text as prefix and an empty suffix.             *)
C9_NoDelimiterAnywhere ==
  (pc = "extracted" /\ ~HasChar(inp, PIPE)) => out = AbsentResult(inp)

\* an extraction from a document of several lines, none with a delimiter
C9_Witness ==
  /\ pc = "extracted"
  /\ ~HasChar(inp, PIPE)
  /\ HasChar(inp, NL)
  /\ HasChar(inp, "T")

----------------------------------------------------------------------------
C10_SameAround(t_in, t_out) ==
  /\ t_out.content_before = t_in.content_before
  /\ t_out.content_after = t_in.content_after

(* C10 as written: when a document is rewritten with a table, the text     *)
(* before and after the table in the output is, character for character,   *)
(* the prefix and suffix the extractor returned for the input.             *)
(* Fails: rebuild_markdown_table trims the prefix's trailing and the       *)
(* suffix's leading whitespace and separates the table by blank lines.     *)
C10_VerbatimAround ==
  (last.wrote /\ last.handed # <<>>)
    => C10_SameAround(parse_markdown_table(last.input), parse_markdown_table(local))

C10_Trimmed(t_in, content) ==
  IF last.handed = <<>> THEN content = t_in.content_before \o t_in.content_after
  ELSE /\ TableText(content) # <<>>
       /\ content = (IF rstrip(t_in.content_before) # <<>>
                     THEN rstrip(t_in.content_before) \o <<NL, NL>> ELSE <<>>)
                      \o TableText(content)
                      \o (IF lstrip(t_in.content_after) # <<>>
                          THEN <<NL, NL>> \o lstrip(t_in.content_after) ELSE <<NL>>)

(* C10 amended: a rewritten document is the extractor's prefix without its *)
(* trailing whitespace, a blank line if that is not empty, the table, and  *)
(* then either a blank line and the extractor's suffix without its leading *)
(* whitespace or, that being empty, one newline; when no row is left to    *)
(* render it is the prefix directly followed by the suffix.                *)
C10_TrimmedAround == last.wrote => C10_Trimmed(parse_markdown_table(last.input), local)

\* a rewrite with a table of a document whose prefix ends, and whose suffix
\* starts, with whitespace
C10_HasWhitespace(t_in) ==
  /\ rstrip(t_in.content_before) \notin {<<>>, t_in.content_before}
  /\ lstrip(t_in.content_after) \notin {<<>>, t_in.content_after}

C10_Witness ==
  /\ last.wrote
  /\ last.handed # <<>>
  /\ C10_HasWhitespace(parse_markdown_table(last.input))

----------------------------------------------------------------------------
\* the lines of a rendered table: the text ends with one newline
C11_Lines(text) == SubSeq(split(text, NL), 1, Len(split(text, NL)) - 1)

\* the number of delimiters in a line
C11_Pipes(line) == Cardinality({i \in 1..Len(line) : line[i] = PIPE})

\* the texts between the delimiters of a line that starts and ends with one
C11_Between(pieces) ==
  [i \in 1..(Len(pieces) - 2) |-> strip(pieces[i + 1])]

\* a data line of n cells: n - 1 delimiters between the two outer ones (none
\* for no cell, the line then holding no text), and blank cells where the
\* record has none
C11_RowOk(line, row, n) ==
  /\ line # <<>> /\ line[1] = PIPE /\ line[Len(line)] = PIPE
  /\ C11_Pipes(line) = IF n = 0 THEN 2 ELSE n + 1
  /\ n = 0 => \A i \in 1..Len(line) : line[i] \in {PIPE, " "}
  /\ n > 0 => \A i \in 1..n : i > Len(row) => C11_Between(split(line, PIPE))[i] = <<>>

\* in compact mode a cell outside the status column is the record's cell
C11_CompactCells(line, row, n, status_col) ==
  \A i \in 1..n :
    (i <= Len(row) /\ i # status_col + 1) => C11_Between(split(line, PIPE))[i] = row[i]

C11_TableOk(lines, headers, rows, beautify) ==
  /\ Len(lines) = Len(rows) + 2
  /\ \A r \in 1..Len(rows) :
       /\ C11_RowOk(lines[r + 2], rows[r], Len(headers))
       /\ (~beautify /\ headers # <<>>)
            => C11_CompactCells(lines[r + 2], rows[r], Len(headers),
                                find_status_column(headers))

(* C11: in a rendered table, beautified or compact, every data row has     *)
(* exactly as many cells as there are header columns: a shorter record is  *)
(* padded with empty cells and the cells beyond the header count are not   *)
(* emitted.                                                                *)
C11_RowsHaveHeaderCount ==
  pc = "rendered" => C11_TableOk(C11_Lines(out), inp.headers, inp.rows, inp.beautify)

\* a render of a record shorter and a record longer than the header list
C11_Witness ==
  /\ pc = "rendered"
  /\ Len(inp.headers) = 2
  /\ \E r, q \in 1..Len(inp.rows) : Len(inp.rows[r]) < 2 /\ Len(inp.rows[q]) > 2

----------------------------------------------------------------------------
\* the text of column i of a beautified line, between "| " and " |"
C12_Column(line, i) ==
  SubSeq(split(line, PIPE)[i + 1], 2, Len(split(line, PIPE)[i + 1]) - 1)

\* the width of column i, read off the separator row
C12_Width(lines, i) == Len(C12_Column(lines[2], i))

\* what a cell is emitted as in a column of width w
C12_CellOk(emitted, cell, w) ==
  IF Len(cell) > w
  THEN /\ w >= 3
       /\ emitted = SubSeq(cell, 1, w - 3) \o Txt_ellipsis
       /\ Len(emitted) = w
  ELSE /\ SubSeq(emitted, 1, Len(cell)) = cell
       /\ Len(emitted) = w
       /\ \A k \in (Len(cell) + 1)..w : emitted[k] = " "

\* the cells of a record as they are rendered: decorated, and empty where
\* the record has none
C12_Cell(row, i) == IF i <= Len(row) THEN row[i] ELSE <<>>

C12_TableOk(lines, n, decorated) ==
  \A r \in 1..Len(decorated) : \A i \in 1..n :
    C12_CellOk(C12_Column(lines[r + 2], i), C12_Cell(decorated[r], i), C12_Width(lines, i))

(* C12: under beautified rendering a cell longer than its column's width   *)
(* is emitted as its first (width - 3) characters and the three-character  *)
(* marker, so that its length is the width; a cell not longer than the     *)
(* width is emitted in full, padded with spaces to the width.              *)
C12_TruncatedToWidth ==
  (pc = "rendered" /\ inp.beautify)
    => C12_TableOk(C11_Lines(out), Len(inp.headers),
                   DecorateRows(inp.headers, inp.rows, inp.add_emoji))

\* a beautified render that cut a key at the first column's cap and a
\* decorated status cell at the second's
C12_Witness ==
  /\ pc = "rendered"
  /\ inp.beautify
  /\ inp.add_emoji
  /\ inp.headers = <<<<"N","a","m","e">>, <<"S","t","a","t","u","s">>>>
  /\ \E k \in 3..Len(C11_Lines(out)) :
       /\ Contains(C12_Column(C11_Lines(out)[k], 1), <<"x", ".", ".", ".">>)
       /\ Contains(C12_Column(C11_Lines(out)[k], 2), <<"RED", " ">>)
       /\ Contains(C12_Column(C11_Lines(out)[k], 2), Txt_ellipsis)
       /\ Len(C12_Column(C11_Lines(out)[k], 2)) = max_widths[2]

----------------------------------------------------------------------------
(* C20: a beautified table is aligned: the header row, the separator row   *)
(* and every data row have the same length, each column taking exactly its *)
(* computed width in every line, also under a header longer than the       *)
(* column's cap.                                                           *)
(* Fails: a header is padded but never cut, so a header longer than its    *)
(* column's cap is wider than the separator and the cells under it.        *)
C20_Aligned ==
  (pc = "rendered" /\ inp.beautify)
    => \A k \in 1..Len(C11_Lines(out)) :
         /\ Len(C11_Lines(out)[k]) = Len(C11_Lines(out)[2])
         /\ \A i \in 1..Len(inp.headers) :
              Len(C12_Column(C11_Lines(out)[k], i)) = C12_Width(C11_Lines(out), i)

----------------------------------------------------------------------------
\* the file as the run without --dry-run would hand it to
\* process_markdown_file: after the merge of the new rows when the run syncs
C13_NonDryFile ==
  IF pc = "synced" THEN merge_upstream_entries(last.new_rows, local, FALSE).content
  ELSE local

\* the counts process_markdown_file reports in the run without --dry-run
C13_NonDryCounts(r) == <<r.removed, r.kept>>

C13_SameCounts ==
  /\ last'.op = "merge" => last'.new_rows = last.new_rows
  /\ last'.op = "process"
       => <<last'.removed, last'.kept>> =
            C13_NonDryCounts(process_markdown_file(C13_NonDryFile, FALSE, args.clean,
                                                   args.beautify, args.add_emoji,
                                                   args.keep_offline))

(* C13: in dry-run mode no clean, beautify or sync step writes the         *)
(* document, and the removed, kept and new counts it reports are those the *)
(* run without --dry-run would report.                                     *)
(* Fails: a dry run of --sync with --clean or --beautify counts the rows   *)
(* of the file without the new rows, which the real run merges first.      *)
C13_DryRunFaithful ==
  [][args.dry_run => (local' = local /\ ~last'.wrote /\ C13_SameCounts)]_vars

----------------------------------------------------------------------------
\* the checks so far went through the URLs in list order, each once
C14_InOrder ==
  /\ Len(out.results) <= Len(inp)
  /\ \A k \in 1..Len(out.results) : out.results[k].url = inp[k]
  /\ Cardinality({k \in 1..Len(out.steps) : out.steps[k] = "check"}) = Len(out.results)

\* one delay between two consecutive checks
C14_OneDelay ==
  \A j \in 1..(Len(out.steps) - 1) :
    /\ out.steps[j] = "check" => out.steps[j + 1] = "sleep"
    /\ out.steps[j] = "sleep" => out.steps[j + 1] = "check"

\* nothing is checked after a FLOOD
C14_FloodLast ==
  \A k \in 1..(Len(out.results) - 1) : out.results[k].status # Txt_FLOOD

\* a batch that has ended went up to the first FLOOD or, without one, to the
\* end of the list, and saved what it returns
C14_Ended ==
  /\ Len(out.results) = Len(inp)
       \/ out.results[Len(out.results)].status = Txt_FLOOD
  /\ out.saved.written => out.saved.results = out.results

(* C14: a batch check visits the URLs in list order, each at most once,    *)
(* with one delay between two consecutive checks; it stops right after the *)
(* first FLOOD and otherwise goes to the end of the list whatever the      *)
(* statuses are, so that the results returned and saved are those of the   *)
(* list's prefix up to and including the first FLOOD.                      *)
C14_BatchIsPrefixToFlood ==
  (pc \notin {"main", "run_checks"} /\ out.connected)
    => /\ C14_InOrder
       /\ C14_OneDelay
       /\ C14_FloodLast
       /\ pc \in {"returned", "updated"} => C14_Ended

\* a batch that went past an ERROR and was stopped by a FLOOD before the end
\* of the list, its results saved
C14_Witness ==
  /\ pc = "returned"
  /\ Len(inp) = 3
  /\ Len(out.results) = 2
  /\ out.results[1].status = Txt_ERROR
  /\ out.results[2].status = Txt_FLOOD
  /\ out.saved.written
  /\ out.saved.results = out.results

----------------------------------------------------------------------------
\* the table is absent: no header column or no record
C15_Absent(t) == t.headers = <<>> \/ t.rows = <<>>

\* the same records with the same cell texts, whatever the layout
C15_SameCells(t_in, t_out) == t_out.headers = t_in.headers /\ t_out.rows = t_in.rows

(* C15: a table without header columns or without records is treated as    *)
(* absent: clean and beautify remove no record and drop no cell text of    *)
(* such a document; at most its layout changes.                            *)
(* Fails: records under a header line without a column name are rendered   *)
(* with no cell at all by --beautify.                                      *)
C15_AbsentTableUntouched ==
  (pc = "processed" /\ C15_Absent(parse_markdown_table(inp.content)))
    => /\ out.removed = 0
       /\ C15_SameCells(parse_markdown_table(inp.content),
                        parse_markdown_table(out.content))

----------------------------------------------------------------------------
\* the statuses both programs have a glyph for
C16_Canonical ==
  {STATUS_EMOJI[k].key : k \in 1..Len(STATUS_EMOJI)}
    \cap {status_map[k].key : k \in 1..Len(status_map)}

\* the status cell of a line of the file: parts[2], stripped
C16_StatusCell(line) == strip(split(line, PIPE)[3])

\* the lines of the file that hold the URL of a result and the status the
\* update wrote into them
C16_Written(lines, results) ==
  {k \in 1..Len(lines) :
     /\ UrlSearch(lines[k])[1] > 0
     /\ ResultFor(results, CleanUrl(SubSeq(lines[k], UrlSearch(lines[k])[1],
                                            UrlSearch(lines[k])[2])))
          \in C16_Canonical}

(* C16: a canonical status has one glyph throughout: the glyph the status  *)
(* check writes with a status into a document is the glyph decoration      *)
(* (add_status_emoji) gives a cell of that status.                         *)
(* Fails: the status check writes EXPIRED with the red glyph, decoration   *)
(* gives it the white one.                                                 *)
C16_OneGlyphPerStatus ==
  pc = "updated"
    => \A k \in C16_Written(ReadLines(local), out.results) :
         C16_StatusCell(ReadLines(local)[k])[1]
           = add_status_emoji(ResultFor(out.results,
                                        CleanUrl(SubSeq(ReadLines(local)[k],
                                                        UrlSearch(ReadLines(local)[k])[1],
                                                        UrlSearch(ReadLines(local)[k])[2]))))[1]

----------------------------------------------------------------------------
\* the documents of the collection that have a table: the files outside the
\* skip list whose table is not absent
C17_Docs(files) ==
  {k \in 1..Len(files) :
     /\ lower(files[k].name) \notin SKIP_FILES
     /\ ~C15_Absent(parse_markdown_table(files[k].content))}

C17_Rows(files, k) == parse_markdown_table(files[k].content).rows

\* the status cell of a record, <<>> when the table has no status column or
\* the record no cell in it
C17_Status(files, k, row) ==
  IF find_status_column(parse_markdown_table(files[k].content).headers) # -1
     /\ Len(row) > find_status_column(parse_markdown_table(files[k].content).headers)
  THEN upper(row[find_status_column(parse_markdown_table(files[k].content).headers) + 1])
  ELSE <<>>

C17_OnlineLike(s) == Contains(s, Txt_ONLINE) \/ Contains(s, Txt_VALID)

C17_OfflineLike(s) ==
  ~C17_OnlineLike(s) /\ (Contains(s, Txt_OFFLINE) \/ Contains(s, Txt_EXPIRED))

\* the records of document k, by position, whose status satisfies P
C17_Records(files, k, P(_)) ==
  {<<k, r>> : r \in {q \in 1..Len(C17_Rows(files, k)) :
                       P(C17_Status(files, k, C17_Rows(files, k)[q]))}}

C17_Any(s) == TRUE

C17_All(files, P(_)) == UNION {C17_Records(files, k, P) : k \in C17_Docs(files)}

\* the per-document entries: one for each document with a table, counting
\* its records, each in at most one bucket
C17_PerDocument(files, stats) ==
  /\ DOMAIN stats.files = {files[k].name : k \in C17_Docs(files)}
  /\ \A k \in C17_Docs(files) :
            /\ stats.files[files[k].name].total = Cardinality(C17_Records(files, k, C17_Any))
            /\ stats.files[files[k].name].online
                 = Cardinality(C17_Records(files, k, C17_OnlineLike))
            /\ stats.files[files[k].name].offline
                 = Cardinality(C17_Records(files, k, C17_OfflineLike))
            /\ stats.files[files[k].name].online + stats.files[files[k].name].offline
                 <= stats.files[files[k].name].total

\* the global counts: every record once, and so the sums of the entries
C17_Global(files, stats) ==
  /\ stats.total_entries = Cardinality(C17_All(files, C17_Any))
  /\ stats.online_entries = Cardinality(C17_All(files, C17_OnlineLike))
  /\ stats.offline_entries = Cardinality(C17_All(files, C17_OfflineLike))
  /\ stats.online_entries + stats.offline_entries <= stats.total_entries

(* C17: the statistics are consistent: every record is counted once in the *)
(* total and in at most one bucket (online-like when its status cell has   *)
(* ONLINE or VALID, else offline-like when it has OFFLINE or EXPIRED), the *)
(* global counts are the sums of the per-document counts, online plus      *)
(* offline never exceeds the total, and a document without a table counts  *)
(* for nothing and gets no entry.                                          *)
(* Fails: the records under a header line without a column name are        *)
(* counted, and their document gets an entry.                              *)
C17_StatisticsConsistent ==
  pc = "counted" => C17_PerDocument(inp, out) /\ C17_Global(inp, out)

----------------------------------------------------------------------------
\* lines s .. e - 1 are the table of the document: no line before s has the
\* delimiter, line s and the lines up to e - 1 have it, and line e, if the
\* document has one, does not
C18_TableAt(lines, s, e) ==
  /\ \A i \in 1..(s - 1) : ~HasChar(lines[i], PIPE)
  /\ \A i \in s..(e - 1) : HasChar(lines[i], PIPE)
  /\ e <= Len(lines) => ~HasChar(lines[e], PIPE)

\* the extractor's result is made of the three segments: prefix and suffix
\* are the lines before s and from e on, headers and records are read from
\* the lines s .. e - 1 alone
C18_Segments(lines, s, e, t) ==
  /\ t.content_before = join(SubSeq(lines, 1, s - 1), <<NL>>)
  /\ t.content_after = join(SubSeq(lines, e, Len(lines)), <<NL>>)
  /\ t.headers = ParseHeaders(lines[s])
  /\ t.rows = ParseRows(SubSeq(lines, s + 2, e - 1))
  /\ SubSeq(lines, 1, s - 1) \o SubSeq(lines, s, e - 1) \o SubSeq(lines, e, Len(lines)) = lines

(* C18: the extractor's prefix lines, table lines and suffix lines are     *)
(* three consecutive segments that make up the document's lines in order:  *)
(* no prefix line has the delimiter, the table starts at the first line    *)
(* that has it and ends before the first later line that has not (or at    *)
(* the end of the document, the suffix being empty), and headers and       *)
(* records are parsed from the table lines only, also when a later suffix  *)
(* line has the delimiter.                                                 *)
C18_ThreeSegments ==
  (pc = "extracted" /\ HasChar(inp, PIPE))
    => \E s \in 1..Len(split(inp, NL)) : \E e \in (s + 1)..(Len(split(inp, NL)) + 1) :
         /\ C18_TableAt(split(inp, NL), s, e)
         /\ C18_Segments(split(inp, NL), s, e, out)

\* an extraction from a document with a line of text after the table and a
\* line with the delimiter after that
C18_Witness ==
  /\ pc = "extracted"
  /\ Len(split(inp, NL)) = 3
  /\ HasChar(split(inp, NL)[1], PIPE)
  /\ ~HasChar(split(inp, NL)[2], PIPE)
  /\ HasChar(split(inp, NL)[3], PIPE)
  /\ split(inp, NL)[2] # <<>>
  /\ out.headers # <<>>

----------------------------------------------------------------------------
(* C19: sync is idempotent against an unchanged upstream: once a sync has  *)
(* merged and rewritten the document, the diff recomputed for it is empty, *)
(* so that a second sync adds no record, also for keys longer than the     *)
(* first column's width cap.                                               *)
(* Fails: the merge writes a key longer than the cap cut to the cap, so    *)
(* the upstream key is still absent from the local keys and is added by    *)
(* every sync.                                                             *)
C19_SecondSyncAddsNothing ==
  (last.op = "merge" /\ last.wrote) => get_upstream_diff(TRUE, local, upstream) = <<>>

====
